---- MODULE Spec2Model ----
(***************************************************************************)
(* Model of the allocation optimizer of financial-dashboard                *)
(* (src/or_module.py): _prepare_maker_stats, optimize_allocation,          *)
(* baseline_allocation_cost; and of the storage of uploaded trades         *)
(* (src/db_manager_new.py: create_tables, store_data;                      *)
(* src/app/data_access.py: load_and_store_data).                           *)
(*                                                                         *)
(* Numbers.  The code computes on floats; the model computes on exact      *)
(* integers in fixed units:                                                *)
(*   - a share (min_share, max_share) is a numerator over ShareDen;        *)
(*   - capacity_percentile is a numerator over QDen;                       *)
(*   - a trade's amount and rate, and target_volume, are integers;         *)
(*   - every derived volume (capacity, lower, upper, alloc_volume) is held *)
(*     in units of 1/VolScale, VolScale = ShareDen * QDen, so that         *)
(*     min_share * target_volume and the interpolated quantile are exact;  *)
(*   - every derived rate (avg_rate, std_rate, unit_cost) is held in units *)
(*     of 1/RateScale, so that the mean of up to MaxTrades rates is exact; *)
(*     the square root of std is rounded down to that unit.                *)
(* The tolerance 1e-9 of the feasibility checks is far below one unit of   *)
(* volume, so `a - 1e-9 > b` is `a > b` on these quantities.               *)
(*                                                                         *)
(* Environment.  PuLP is importable (the try at lines 40-43 succeeds) and  *)
(* pandas is a version in which Series.fillna(inplace=True) on a selected  *)
(* column updates the frame, as the comment on line 79 expects.            *)
(***************************************************************************)
EXTENDS Integers, Sequences, FiniteSets, Bags, TLC

\* ------------------------------------------------------------------ bounds
MaxTrades == 4      \* rows of the historical dataset
ShareDen == 10      \* shares are k / ShareDen
QDen == 2           \* capacity_percentile is k / QDen
MaxRows == 2        \* rows of a frame stored in the trades table

VolScale == ShareDen * QDen

RECURSIVE Factorial(_)
Factorial(n) == IF n <= 1 THEN 1 ELSE n * Factorial(n - 1)

RateScale == Factorial(MaxTrades)

\* ------------------------------------------------------ input value domains
MakerIds == <<"A", "B", "C">>           \* maker_bank values, in sort order
Makers == {MakerIds[i] : i \in 1..Len(MakerIds)}
Dates == {1, 2}                          \* trade_date values
Amounts == {2}                           \* amount values: volumes come in lots of 2
Rates == {1, 2}                          \* rate values

Targets == {0, 4, 8}                     \* target_volume arguments
\* min_share numerators: below 0, 0, 1/ShareDen, a half, one step above a half
MinShareNums == {-1, 0, 1, ShareDen \div 2, ShareDen \div 2 + 1}
\* max_share numerators: 1/ShareDen, a half, 1, above 1
MaxShareNums == {1, ShareDen \div 2, ShareDen, ShareDen + 1}
RiskAversions == {0, 1}                  \* risk_aversion arguments
Percentiles == {QDen \div 2, QDen}       \* capacity_percentile numerators

\* Rank of a maker identifier in the lexicographic order of the identifiers.
Rank(m) == CHOOSE i \in 1..Len(MakerIds) : MakerIds[i] = m

\* A float that may be NaN is <<>> (NaN) or <<v>> (the number v).
NaN == <<>>
None == "None"
\* The value of a solver variable is <<>> (None) or <<v>>.
NoValue == <<>>

\* ------------------------------------------------------------------ state
VARIABLES
    df,        \* the data at rest: the historical dataset, [columns, rows] with
               \* rows a bag of records, or the database, [table]
    args,      \* the arguments of the last call, or None
    outcome    \* what that call did: what it returned or raised

vars == <<df, args, outcome>>

\* ---------------------------------------------------------------- helpers
\* sum(...) of the values f[x], x in S.
RECURSIVE SumOver(_, _)
SumOver(f, S) ==
    IF S = {} THEN 0
    ELSE LET x == CHOOSE y \in S : TRUE
         IN  f[x] + SumOver(f, S \ {x})

Min(a, b) == IF a <= b THEN a ELSE b

\* Largest k with k * k <= n: the square root, rounded down to the rate unit.
ISqrt(n) == CHOOSE k \in 0..n : k * k <= n /\ n < (k + 1) * (k + 1)

\* The values f[x], x in S, in ascending order (equal values are kept).
RECURSIVE SortedValues(_, _)
SortedValues(f, S) ==
    IF S = {} THEN <<>>
    ELSE LET x == CHOOSE y \in S : \A z \in S : f[y] <= f[z]
         IN  <<f[x]>> \o SortedValues(f, S \ {x})

\* ------------------------------------------------------------ the dataset
\* needed without trade_date.
neededWithoutDate == {"maker_bank", "amount", "rate"}

\* Line 63
needed == {"maker_bank", "amount", "rate", "trade_date"}

\* The column sets a caller may hand over: all columns, or one of them absent.
ColumnSets == {needed} \cup {needed \ {c} : c \in needed}

\* The rows a frame with these columns can hold; an absent column has no value.
RowsFor(columns) ==
    [trade_date : IF "trade_date" \in columns THEN Dates ELSE {None},
     maker_bank : IF "maker_bank" \in columns THEN Makers ELSE {None},
     amount     : IF "amount" \in columns THEN Amounts ELSE {None},
     rate       : IF "rate" \in columns THEN Rates ELSE {None}]

\* len(df)
FrameLen(frame) == BagCardinality(frame.rows)

\* ------------------------------------------------- _prepare_maker_stats
\* The rows of one group of df.groupby("maker_bank").
GroupRows(frame, m) == {r \in BagToSet(frame.rows) : r.maker_bank = m}

\* GroupKeys without the makers whose std is NaN (those of a single trade).
GroupKeysWithStd(frame) ==
    LET keys == {r.maker_bank : r \in BagToSet(frame.rows)}
    IN  {m \in keys :
            SumOver([r \in {t \in BagToSet(frame.rows) : t.maker_bank = m} |->
                        CopiesIn(r, frame.rows)],
                    {t \in BagToSet(frame.rows) : t.maker_bank = m}) >= 2}

\* The keys of df.groupby("maker_bank").
GroupKeys(frame) == {r.maker_bank : r \in BagToSet(frame.rows)}

GroupCount(frame, m) ==
    SumOver([r \in GroupRows(frame, m) |-> CopiesIn(r, frame.rows)], GroupRows(frame, m))

\* groupby("maker_bank")["rate"].agg("mean"), in units of 1/RateScale.
RateMean(frame, m) ==
    LET g == GroupRows(frame, m)
        total == SumOver([r \in g |-> CopiesIn(r, frame.rows) * r.rate], g)
    IN  (total * RateScale) \div GroupCount(frame, m)

\* groupby("maker_bank")["rate"].agg("std"): the sample standard deviation
\* (ddof = 1), NaN for a group of one row; in units of 1/RateScale.
RateStd(frame, m) ==
    LET g == GroupRows(frame, m)
        n == GroupCount(frame, m)
        mean == RateMean(frame, m)
        sq == SumOver([r \in g |-> CopiesIn(r, frame.rows)
                                    * (r.rate * RateScale - mean)
                                    * (r.rate * RateScale - mean)], g)
    IN  IF n < 2 THEN NaN ELSE <<ISqrt(sq \div (n - 1))>>

\* groupby("maker_bank")["amount"].sum(), in units of 1/VolScale.
TotalVolume(frame, m) ==
    LET g == GroupRows(frame, m)
    IN  VolScale * SumOver([r \in g |-> CopiesIn(r, frame.rows) * r.amount], g)

\* Daily without the sum: the amounts of the maker's trades, one by one.
DailyNotSummed(frame, m) == [r \in GroupRows(frame, m) |-> r.amount]

\* df.groupby(["trade_date", "maker_bank"])["amount"].sum(): one maker's daily
\* volumes, a function of the days the maker traded.
Daily(frame, m) ==
    LET g == GroupRows(frame, m)
    IN  [d \in {r.trade_date : r \in g} |->
            SumOver([r \in {s \in g : s.trade_date = d} |->
                        CopiesIn(r, frame.rows) * r.amount],
                    {s \in g : s.trade_date = d})]

\* Series.quantile(q), q = qnum / QDen, with linear interpolation between the
\* two closest ranks; `sorted` is the series in ascending order.  The result
\* is in units of 1/QDen.
Quantile(sorted, qnum) ==
    LET k == Len(sorted)
        pos == qnum * (k - 1)            \* position * QDen
        lo == pos \div QDen
        frac == pos % QDen
    IN  IF frac = 0 THEN QDen * sorted[lo + 1]
        ELSE QDen * sorted[lo + 1] + frac * (sorted[lo + 2] - sorted[lo + 1])

\* daily.groupby("maker_bank")["amount"].quantile(capacity_percentile), in
\* units of 1/VolScale.
Capacity(frame, m, capacity_percentile) ==
    LET daily == Daily(frame, m)
    IN  ShareDen * Quantile(SortedValues(daily, DOMAIN daily), capacity_percentile)

\* FillNa leaving the frame as it was: the NaN stays.
FillNaNoEffect(v) == v

\* maker_stats["std_rate"].fillna(0, inplace=True): the value the frame holds
\* afterwards, a number (<<v>>).
FillNa(v) == IF v = NaN THEN <<0>> ELSE v

\* _prepare_maker_stats(df, capacity_percentile): raises on a missing column,
\* else returns the frame of statistics indexed by maker_bank.
prepare_maker_stats(frame, capacity_percentile) ==
    LET missing == needed \ frame.columns
    IN  IF missing # {}
        THEN [raised |-> TRUE, missing |-> missing]
        ELSE [raised |-> FALSE,
              maker_stats |->
                [m \in GroupKeys(frame) |->
                    [avg_rate     |-> RateMean(frame, m),
                     std_rate     |-> FillNa(RateStd(frame, m)),
                     total_volume |-> TotalVolume(frame, m),
                     capacity     |-> Capacity(frame, m, capacity_percentile)]]]

\* ------------------------------------------------------------ the solver
\* The allocation that puts the makers of `atUpper` at their upper bound, the
\* others at their lower bound, and gives maker b what is left of the target.
Basic(makers, lower, upper, target, b, atUpper) ==
    LET rest == makers \ {b}
        fixed == [m \in rest |-> IF m \in atUpper THEN upper[m] ELSE lower[m]]
    IN  [m \in makers |-> IF m = b THEN target - SumOver(fixed, rest) ELSE fixed[m]]

\* Feasible with the total volume constrained by <= instead of ==.
FeasibleAtMostTarget(makers, lower, upper, target, x) ==
    /\ \A m \in makers : lower[m] <= x[m] /\ x[m] <= upper[m]
    /\ SumOver(x, makers) <= target

\* Feasible with the variables created without their bounds.
FeasibleTotalOnly(makers, lower, upper, target, x) ==
    SumOver(x, makers) = target

\* The constraints of the model: the box of every variable (line 133) and the
\* total volume (line 142).
Feasible(makers, lower, upper, target, x) ==
    /\ \A m \in makers : lower[m] <= x[m] /\ x[m] <= upper[m]
    /\ SumOver(x, makers) = target

\* The allocation that puts exactly the makers of `atUpper` at their upper
\* bound and the others at their lower bound.
AtBounds(makers, lower, upper, atUpper) ==
    [m \in makers |-> IF m \in atUpper THEN upper[m] ELSE lower[m]]

\* The corner points the simplex method moves over: every variable at a bound
\* but at most one, which takes what the others leave of the target.
Corners(makers, lower, upper, target) ==
    {Basic(makers, lower, upper, target, bs[1], bs[2]) :
        bs \in {<<b, s>> \in makers \X SUBSET makers : b \notin s}}
    \cup {AtBounds(makers, lower, upper, s) : s \in SUBSET makers}

\* The basic feasible solutions of the linear program: the simplex method
\* returns one of them.
Vertices(makers, lower, upper, target) ==
    {x \in Corners(makers, lower, upper, target) : Feasible(makers, lower, upper, target, x)}

\* The objective (line 139).
Objective(makers, unit_cost, x) == SumOver([m \in makers |-> unit_cost[m] * x[m]], makers)

\* Cheapest with the objective maximised (pulp.LpMaximize).
Costliest(makers, unit_cost, V) ==
    LET cost == [x \in V |-> Objective(makers, unit_cost, x)]
    IN  {x \in V : \A y \in V : cost[x] >= cost[y]}

\* The solutions the solver may report for the objective: the cheapest ones.
Cheapest(makers, unit_cost, V) ==
    LET cost == [x \in V |-> Objective(makers, unit_cost, x)]
    IN  {x \in V : \A y \in V : cost[x] <= cost[y]}

\* Solve with a solver that stops inside the set of the cheapest solutions
\* (a barrier method without crossover): the values are halfway between two
\* of the cheapest basic solutions.
SolveWithoutCrossover(makers, lower, upper, unit_cost, target) ==
    LET V == Vertices(makers, lower, upper, target)
        C == Cheapest(makers, unit_cost, V)
        pairs == {p \in C \X C : \A m \in makers : (p[1][m] + p[2][m]) % 2 = 0}
    IN  IF V = {}
        THEN {[status |-> "Infeasible", x |-> [m \in makers |-> NoValue]]}
        ELSE {[status |-> "Optimal",
               x |-> [m \in makers |-> <<(p[1][m] + p[2][m]) \div 2>>]] : p \in pairs}

\* model.solve(pulp.PULP_CBC_CMD(msg=False)): the status of the solver and the
\* values of the variables.  An empty feasible region is reported as
\* "Infeasible"; otherwise the status is "Optimal" and the values are one of
\* the cheapest basic solutions (which one, when several cost the same, is
\* the solver's choice).
Solve(makers, lower, upper, unit_cost, target) ==
    LET V == Vertices(makers, lower, upper, target)
    IN  IF V = {}
        THEN {[status |-> "Infeasible", x |-> [m \in makers |-> NoValue]]}
        ELSE {[status |-> "Optimal", x |-> [m \in makers |-> <<v[m]>>]] :
                v \in Cheapest(makers, unit_cost, V)}

\* ------------------------------------------------- optimize_allocation
\* The module global `pulp`: the imported module (lines 40-43).
pulp == "module"

\* raise OptimizationError(...) at `line`.  The code has one exception class;
\* `kind` names the failure after the raising statement:
\*   109 DependencyError, 112 and 114 ValidationError, 66 DataError,
\*   119 InsufficientMakersError, 127 InfeasibleLowerBoundError,
\*   129 InfeasibleCapacityError, 147 SolverError.
\* `solved` tells whether model.solve had been invoked.
Raise(kind, line, solved) ==
    [kind |-> "raised", error |-> [kind |-> kind, line |-> line],
     solved |-> solved, alloc_df |-> <<>>, meta |-> <<>>]

\* return alloc_df, meta
Return(alloc_df, meta) ==
    [kind |-> "returned", error |-> [kind |-> None, line |-> 0],
     solved |-> TRUE, alloc_df |-> alloc_df, meta |-> <<meta>>]

\* maker_stats.index.tolist(): the makers in the sorted order of the index.
RECURSIVE IndexList(_)
IndexList(S) ==
    IF S = {} THEN <<>>
    ELSE LET m == CHOOSE a \in S : \A b \in S : Rank(a) <= Rank(b)
         IN  <<m>> \o IndexList(S \ {m})

\* x[m].value() or 0.0
ValueOr0(v) == IF v = NoValue THEN 0 ELSE v[1]

\* sort_values("alloc_volume", ascending=False).reset_index(drop=True); rows of
\* equal alloc_volume keep their order.
RECURSIVE SortByAllocDesc(_)
SortByAllocDesc(rows) ==
    IF rows = <<>> THEN <<>>
    ELSE LET i == CHOOSE j \in 1..Len(rows) :
                    /\ \A k \in 1..Len(rows) : rows[k].alloc_volume <= rows[j].alloc_volume
                    /\ \A k \in 1..(j - 1) : rows[k].alloc_volume < rows[j].alloc_volume
         IN  <<rows[i]>> \o SortByAllocDesc(SubSeq(rows, 1, i - 1) \o SubSeq(rows, i + 1, Len(rows)))

\* RowCost with the risk-adjusted unit cost in place of the average rate.
RowCostRiskAdjusted(vol, avg_r, u_cost) == vol * u_cost

\* Line 157: cost = vol * avg_r
RowCost(vol, avg_r, u_cost) == vol * avg_r

\* Lines 149-182: the rows and the metadata built from a solver result.
Report(makers, maker_stats, lower, upper, unit_cost, target, sol) ==
    LET mset == {makers[i] : i \in 1..Len(makers)}
        vol == [m \in mset |-> ValueOr0(sol.x[m])]
        row(m) ==
            [maker_bank    |-> m,
             avg_rate      |-> maker_stats[m].avg_rate,
             std_rate      |-> maker_stats[m].std_rate[1],
             capacity      |-> maker_stats[m].capacity,
             lower_bound   |-> lower[m],
             upper_bound   |-> upper[m],
             alloc_volume  |-> vol[m],
             alloc_pct     |-> [num |-> vol[m], den |-> target],
             unit_cost     |-> unit_cost[m],
             cost          |-> RowCost(vol[m], maker_stats[m].avg_rate, unit_cost[m]),
             risk_adj_cost |-> vol[m] * unit_cost[m]]
        rows == [i \in 1..Len(makers) |-> row(makers[i])]
    IN  Return(SortByAllocDesc(rows),
               [objective_value    |-> Objective(mset, unit_cost, vol),
                expected_cost      |-> SumOver([m \in mset |-> RowCost(vol[m], maker_stats[m].avg_rate,
                                                                      unit_cost[m])], mset),
                risk_adjusted_cost |-> SumOver([m \in mset |-> vol[m] * unit_cost[m]], mset),
                status             |-> sol.status])

\* Line 111: target_volume <= 0
TargetInvalid(target_volume) == target_volume <= 0

\* SharesInvalid without the test max_share <= 1.
SharesInvalidNoCeiling(min_share, max_share) ==
    ~(0 <= min_share /\ min_share <= max_share)

\* Line 113: not (0 <= min_share <= max_share <= 1)
SharesInvalid(min_share, max_share) ==
    ~(0 <= min_share /\ min_share <= max_share /\ max_share <= ShareDen)

\* TooFewMakers with the threshold off by one.
TooFewMakersBelowOne(makers) == Len(makers) < 1

\* Line 118: len(makers) < 2
TooFewMakers(makers) == Len(makers) < 2

\* LowerBound without the target: the share taken as a volume.
LowerBoundNotScaled(min_share, target_volume) == min_share * QDen

\* Line 122: min_share * target_volume, in units of 1/VolScale.
LowerBound(min_share, target_volume) == min_share * target_volume * QDen

\* UpperBound without the share ceiling: the capacity alone.
UpperBoundCapacityOnly(max_share, target_volume, capacity) == capacity

\* UpperBound without the capacity: the share ceiling alone.
UpperBoundShareOnly(max_share, target_volume, capacity) == max_share * target_volume * QDen

\* Line 123: min(max_share * target_volume, capacity), in units of 1/VolScale.
UpperBound(max_share, target_volume, capacity) ==
    Min(max_share * target_volume * QDen, capacity)

\* FloorTooHigh with >= instead of >.
FloorTooHighOrEqual(lower_sum, target) == lower_sum >= target

\* Line 126: sum(lower.values()) - 1e-9 > target_volume
FloorTooHigh(lower_sum, target) == lower_sum > target

\* Line 128: sum(upper.values()) + 1e-9 < target_volume
CapacityTooLow(upper_sum, target) == upper_sum < target

\* NotOptimal with the status never looked at.
NotOptimalIgnored(status) == FALSE

\* Line 146: pulp.LpStatus[model.status] != "Optimal"
NotOptimal(status) == status # "Optimal"

\* UnitCost with the risk term subtracted instead of added.
UnitCostRiskRewarded(avg_rate, std_rate, risk_aversion) == avg_rate - risk_aversion * std_rate[1]

\* Line 136: avg_rate + risk_aversion * std_rate, in units of 1/RateScale;
\* std_rate is the value the frame holds, a number since line 79.
UnitCost(avg_rate, std_rate, risk_aversion) == avg_rate + risk_aversion * std_rate[1]

\* Allocate with the two feasibility checks in the other order.
AllocateCapacityFirst(maker_stats, target_volume, min_share, max_share, risk_aversion) ==
    LET makers == IndexList(DOMAIN maker_stats)
        mset == DOMAIN maker_stats
        target == target_volume * VolScale
        lower == [m \in mset |-> LowerBound(min_share, target_volume)]
        upper == [m \in mset |-> UpperBound(max_share, target_volume, maker_stats[m].capacity)]
        unit_cost == [m \in mset |-> UnitCost(maker_stats[m].avg_rate,
                                               maker_stats[m].std_rate, risk_aversion)]
    IN  IF CapacityTooLow(SumOver(upper, mset), target)
        THEN {Raise("InfeasibleCapacityError", 129, FALSE)}
        ELSE IF FloorTooHigh(SumOver(lower, mset), target)
        THEN {Raise("InfeasibleLowerBoundError", 127, FALSE)}
        ELSE {IF NotOptimal(sol.status)
              THEN Raise("SolverError", 147, TRUE)
              ELSE Report(makers, maker_stats, lower, upper, unit_cost, target, sol) :
                sol \in Solve(mset, lower, upper, unit_cost, target)}

\* Lines 121-182, once the statistics are known and there are two makers.
Allocate(maker_stats, target_volume, min_share, max_share, risk_aversion) ==
    LET makers == IndexList(DOMAIN maker_stats)
        mset == DOMAIN maker_stats
        target == target_volume * VolScale
        lower == [m \in mset |-> LowerBound(min_share, target_volume)]
        upper == [m \in mset |-> UpperBound(max_share, target_volume, maker_stats[m].capacity)]
        unit_cost == [m \in mset |-> UnitCost(maker_stats[m].avg_rate,
                                               maker_stats[m].std_rate, risk_aversion)]
    IN  IF FloorTooHigh(SumOver(lower, mset), target)
        THEN {Raise("InfeasibleLowerBoundError", 127, FALSE)}
        ELSE IF CapacityTooLow(SumOver(upper, mset), target)
        THEN {Raise("InfeasibleCapacityError", 129, FALSE)}
        ELSE {IF NotOptimal(sol.status)
              THEN Raise("SolverError", 147, TRUE)
              ELSE Report(makers, maker_stats, lower, upper, unit_cost, target, sol) :
                sol \in Solve(mset, lower, upper, unit_cost, target)}

\* optimize_allocation(df, target_volume, min_share, max_share, risk_aversion,
\* capacity_percentile): the set of the outcomes the call can have (one, but
\* for the solver's choice among equally cheap solutions).
optimize_allocation(frame, target_volume, min_share, max_share, risk_aversion, capacity_percentile) ==
    IF pulp = None
    THEN {Raise("DependencyError", 109, FALSE)}
    ELSE IF TargetInvalid(target_volume)
    THEN {Raise("ValidationError", 112, FALSE)}
    ELSE IF SharesInvalid(min_share, max_share)
    THEN {Raise("ValidationError", 114, FALSE)}
    ELSE LET prepared == prepare_maker_stats(frame, capacity_percentile)
         IN  IF prepared.raised
             THEN {Raise("DataError", 66, FALSE)}
             ELSE IF TooFewMakers(IndexList(DOMAIN prepared.maker_stats))
             THEN {Raise("InsufficientMakersError", 119, FALSE)}
             ELSE Allocate(prepared.maker_stats, target_volume, min_share, max_share,
                           risk_aversion)

\* ------------------------------------------------------- the state machine
NoArgs == <<>>
NoOutcome ==
    [kind |-> "none", error |-> [kind |-> None, line |-> 0],
     solved |-> FALSE, alloc_df |-> <<>>, meta |-> <<>>]

Init ==
    /\ df \in {[columns |-> c, rows |-> EmptyBag] : c \in ColumnSets}
    /\ args = NoArgs
    /\ outcome = NoOutcome

\* The caller puts one more trade record into the dataset it is assembling.
AddTrade ==
    /\ outcome.kind = "none"
    /\ FrameLen(df) < MaxTrades
    /\ \E r \in RowsFor(df.columns) :
          df' = [df EXCEPT !.rows = @ (+) SetToBag({r})]
    /\ args' = NoArgs
    /\ outcome' = NoOutcome

\* The requests made.  A malformed request (one that line 111 or line 113
\* rejects) is made with one risk_aversion and one capacity_percentile only:
\* it is rejected before either is read.
Requests ==
    {a \in [target_volume : Targets, min_share : MinShareNums, max_share : MaxShareNums,
            risk_aversion : RiskAversions, capacity_percentile : Percentiles] :
        \/ a.target_volume > 0 /\ 0 <= a.min_share /\ a.min_share <= a.max_share
                                /\ a.max_share <= ShareDen
        \/ a.risk_aversion = 0 /\ a.capacity_percentile = QDen}

\* One call of optimize_allocation on the (non-empty) dataset.
Call ==
    /\ outcome.kind = "none"
    /\ FrameLen(df) >= 1
    /\ \E a \in Requests :
          /\ args' = a
          /\ outcome' \in optimize_allocation(df, a.target_volume, a.min_share, a.max_share,
                                              a.risk_aversion, a.capacity_percentile)
    /\ UNCHANGED df

\* The caller is done with the result (or the error) of the call; the
\* function has kept nothing of it.
Discard ==
    /\ outcome.kind # "none"
    /\ args' = NoArgs
    /\ outcome' = NoOutcome
    /\ UNCHANGED df

Next == AddTrade \/ Call \/ Discard

Spec == Init /\ [][Next]_vars

\* --------------------------------------------- calls on a one-day history
\* A second use of the function: every maker has traded once, on one day, for
\* an amount of some hundreds at a rate quoted in hundredths (101 is 1.01),
\* and the request is target_volume = 1000, min_share = 0.1, max_share = 0.6,
\* risk_aversion = 0.
ScenarioRows ==
    [trade_date : {1}, maker_bank : Makers, amount : {400, 500, 600}, rate : {100, 101, 102}]

ScenarioRequest ==
    [target_volume |-> 1000, min_share |-> ShareDen \div 10, max_share |-> (6 * ShareDen) \div 10,
     risk_aversion |-> 0, capacity_percentile |-> QDen]

ScenarioInit ==
    /\ df = [columns |-> needed, rows |-> EmptyBag]
    /\ args = NoArgs
    /\ outcome = NoOutcome

\* The caller records the one trade of a maker that has none yet.
ScenarioTrade ==
    /\ outcome.kind = "none"
    /\ \E r \in ScenarioRows :
          /\ r.maker_bank \notin GroupKeys(df)
          /\ df' = [df EXCEPT !.rows = @ (+) SetToBag({r})]
    /\ args' = NoArgs
    /\ outcome' = NoOutcome

\* The risk_aversion arguments of these calls: the request's, and one below 0.
ScenarioRisks == {-1, ScenarioRequest.risk_aversion}

\* ScenarioCall writing its daily volumes into the caller's frame as a column.
ScenarioCallWritingColumn ==
    /\ outcome.kind = "none"
    /\ FrameLen(df) >= 1
    /\ \E q \in Percentiles, r \in ScenarioRisks :
          LET a == [ScenarioRequest EXCEPT !.capacity_percentile = q, !.risk_aversion = r]
          IN  /\ args' = a
              /\ outcome' \in optimize_allocation(df, a.target_volume, a.min_share, a.max_share,
                                                  a.risk_aversion, a.capacity_percentile)
    /\ df' = [df EXCEPT !.columns = @ \cup {"daily"}]

\* One call of optimize_allocation with the request above, for a
\* capacity_percentile and a risk_aversion.
ScenarioCall ==
    /\ outcome.kind = "none"
    /\ FrameLen(df) >= 1
    /\ \E q \in Percentiles, r \in ScenarioRisks :
          LET a == [ScenarioRequest EXCEPT !.capacity_percentile = q, !.risk_aversion = r]
          IN  /\ args' = a
              /\ outcome' \in optimize_allocation(df, a.target_volume, a.min_share, a.max_share,
                                                  a.risk_aversion, a.capacity_percentile)
    /\ UNCHANGED df

ScenarioNext == ScenarioTrade \/ ScenarioCall \/ Discard

ScenarioSpec == ScenarioInit /\ [][ScenarioNext]_vars

\* -------------------------------------------- baseline_allocation_cost
\* NoVolume with < instead of <=.
NoVolumeStrict(total) == total < 0

\* Line 190: total <= 0
NoVolume(total) == total <= 0

\* Line 187: df.groupby("maker_bank")["amount"].sum(), in the unit of amount.
HistoricalVolumes(frame) ==
    [m \in GroupKeys(frame) |->
        SumOver([r \in GroupRows(frame, m) |-> CopiesIn(r, frame.rows) * r.amount],
                GroupRows(frame, m))]

\* baseline_allocation_cost(df, target_volume): the cost as the exact fraction
\* num / den of the float the code returns; 0.0 is 0 / 1.  The mean rate of
\* line 188 is in units of 1/RateScale, which the denominator carries.
baseline_allocation_cost(frame, target_volume) ==
    LET vols == HistoricalVolumes(frame)
        total == SumOver(vols, DOMAIN vols)
    IN  IF NoVolume(total)
        THEN [num |-> 0, den |-> 1]
        ELSE [num |-> SumOver([m \in DOMAIN vols |->
                                  vols[m] * target_volume * RateMean(frame, m)], DOMAIN vols),
              den |-> total * RateScale]

\* The trades of the datasets the baseline is computed on: one day, and
\* amounts that may be 0.
BaselineRows == [trade_date : {1}, maker_bank : Makers, amount : {0, 2}, rate : Rates]

BaselineInit ==
    /\ df = [columns |-> needed, rows |-> EmptyBag]
    /\ args = NoArgs
    /\ outcome = NoOutcome

\* The caller puts one more trade record into the dataset.
BaselineTrade ==
    /\ outcome.kind = "none"
    /\ FrameLen(df) < MaxTrades
    /\ \E r \in BaselineRows : df' = [df EXCEPT !.rows = @ (+) SetToBag({r})]
    /\ args' = NoArgs
    /\ outcome' = NoOutcome

\* One call of baseline_allocation_cost on the dataset, which may be empty.
BaselineCall ==
    /\ outcome.kind = "none"
    /\ \E t \in Targets :
          /\ args' = [target_volume |-> t]
          /\ outcome' = [kind |-> "baseline", cost |-> baseline_allocation_cost(df, t)]
    /\ UNCHANGED df

BaselineNext == BaselineTrade \/ BaselineCall \/ Discard

BaselineSpec == BaselineInit /\ [][BaselineNext]_vars

\* ------------------------------------------------- both functions in use
\* A caller that uses both functions of the module on the dataset it holds,
\* one call after the other, in any order and any number of times.
CoreNext == ScenarioTrade \/ ScenarioCall \/ BaselineCall \/ Discard

CoreSpec == ScenarioInit /\ [][CoreNext]_vars

\* ------------------------------------------- the trades table and uploads
\* A third use of the state: df is the database, [table |-> the committed
\* rows of the table trades], args the arguments of the last call of
\* create_tables or load_and_store_data, outcome what that call did.
\*
\* A row of a frame is [hour, amount], each <<v>> or NaN; the other fields
\* of a trade (date, rate, banks, minute) are well-formed and left out.
SheetRows ==
    {[hour |-> <<0>>,  amount |-> <<5>>],
     [hour |-> <<-1>>, amount |-> <<5>>],
     [hour |-> <<24>>, amount |-> <<5>>],
     [hour |-> NaN,    amount |-> <<5>>],
     [hour |-> <<0>>,  amount |-> NaN]}

\* The sequences of at most n elements of S.
RECURSIVE SeqsUpTo(_, _)
SeqsUpTo(S, n) ==
    IF n = 0 THEN {<<>>}
    ELSE LET T == SeqsUpTo(S, n - 1)
         IN  T \cup {Append(t, x) : t \in {u \in T : Len(u) = n - 1}, x \in S}

Datasets == SeqsUpTo(SheetRows, MaxRows)

\* The columns of an uploaded sheet, and the sheets uploaded: unreadable, or
\* with all the columns, without an hour column, or without an amount column.
SheetColumns == {"Trade Date", "Montant", "Taux", "Market Maker", "Market Taker", "hour"}
UploadedFiles ==
    {[readable |-> FALSE, columns |-> {}, rows |-> <<>>]}
    \cup {[readable |-> TRUE, columns |-> c, rows |-> d] :
            c \in {SheetColumns, SheetColumns \ {"hour"}, SheetColumns \ {"Montant"}},
            d \in Datasets}

\* app/data_access.py line 7
REQUIRED_COLS == {"trade_date", "hour", "minute", "amount", "rate", "maker_bank", "taker_bank"}

\* app/validation.py lines 5-11
COLUMN_MAPPINGS ==
    [trade_date |-> <<"Trade Date", "Date">>,
     amount     |-> <<"Montant", "Amount", "Volume">>,
     rate       |-> <<"Taux", "Rate">>,
     maker_bank |-> <<"Market Maker", "Maker Bank">>,
     taker_bank |-> <<"Market Taker", "Taker Bank">>]

\* Lines 24-31 of validate_data: a source column of the target is in the frame.
Mapped(columns, tgt) ==
    \E i \in 1..Len(COLUMN_MAPPINGS[tgt]) : COLUMN_MAPPINGS[tgt][i] \in columns

\* validate_data(df) of app/validation.py: the value returned and the frame
\* as the call leaves it (lines 48-49 write the columns back).  False when a
\* target has no source column (30-31), an amount is not a number (37-39),
\* an hour cannot be cast to int (42, caught at 51) or exceeds 23 (43-45).
validate_data(frame) ==
    LET n == Len(frame.rows)
        hours == [i \in 1..n |-> IF "hour" \in frame.columns THEN frame.rows[i].hour ELSE <<0>>]
    IN  IF \E tgt \in DOMAIN COLUMN_MAPPINGS : ~Mapped(frame.columns, tgt)
        THEN [ok |-> FALSE, df |-> frame]
        ELSE IF \E i \in 1..n : frame.rows[i].amount = NaN
        THEN [ok |-> FALSE, df |-> frame]
        ELSE IF \E i \in 1..n : hours[i] = NaN
        THEN [ok |-> FALSE, df |-> frame]
        ELSE IF \E i \in 1..n : hours[i][1] > 23
        THEN [ok |-> FALSE, df |-> frame]
        ELSE [ok |-> TRUE,
              df |-> [columns |-> frame.columns \cup DOMAIN COLUMN_MAPPINGS \cup {"hour", "minute"},
                      rows |-> [i \in 1..n |-> [hour |-> hours[i], amount |-> frame.rows[i].amount]]]]

\* sort_values(['trade_date','hour','minute']) on rows of one date and minute:
\* ascending hour, rows of equal hour keeping their order.
RECURSIVE SortByTime(_)
SortByTime(rows) ==
    IF rows = <<>> THEN <<>>
    ELSE LET i == CHOOSE j \in 1..Len(rows) :
                    /\ \A k \in 1..Len(rows) : rows[j].hour[1] <= rows[k].hour[1]
                    /\ \A k \in 1..(j - 1) : rows[j].hour[1] < rows[k].hour[1]
         IN  <<rows[i]>> \o SortByTime(SubSeq(rows, 1, i - 1) \o SubSeq(rows, i + 1, Len(rows)))

\* process_trading_data(df), db_manager_new.py lines 23-132: hours that are
\* missing become 0 (80-87), rows without an amount are dropped (97-99), rows
\* with an hour outside 0..23 are dropped (104), a missing column raises
\* (108-111), the rows are sorted (115).
process_trading_data(frame) ==
    LET n == Len(frame.rows)
        hour(i) == IF "hour" \in frame.columns /\ frame.rows[i].hour # NaN
                   THEN frame.rows[i].hour ELSE <<0>>
        have == {c \in REQUIRED_COLS :
                    \/ c \in frame.columns
                    \/ c \in {"hour", "minute"}
                    \/ c = "trade_date" /\ "Trade Date" \in frame.columns
                    \/ c = "amount" /\ "Montant" \in frame.columns
                    \/ c = "rate" /\ "Taux" \in frame.columns
                    \/ c = "maker_bank" /\ "Market Maker" \in frame.columns
                    \/ c = "taker_bank" /\ "Market Taker" \in frame.columns}
        kept == SelectSeq([i \in 1..n |-> [hour |-> hour(i), amount |-> frame.rows[i].amount]],
                          LAMBDA r : /\ ("amount" \in have => r.amount # NaN)
                                     /\ 0 <= r.hour[1] /\ r.hour[1] <= 23)
    IN  IF have # REQUIRED_COLS
        THEN [raised |-> TRUE, rows |-> <<>>]
        ELSE [raised |-> FALSE, rows |-> SortByTime(kept)]

\* The statement of create_tables at which the database fails, if any:
\* connect (155), create (159-171), delete (174-175), insert (191-195),
\* commit (197), count (199-201); read is the query of load_and_store_data
\* (data_access.py 36-37).
DbFailures == {"none", "connect", "create", "delete", "insert", "commit", "count", "read"}

\* The tuple inserted for a row (lines 180-188): int(hour), float(amount).
InsertedRow(row) == [hour |-> row.hour[1], amount |-> row.amount]

\* create_tables(df), db_manager_new.py lines 152-210, on the committed
\* table: whether it raised and the committed table it leaves.  The DELETE
\* is committed at line 175; what fails after it and before the commit of
\* line 197 is rolled back by conn.close() (line 209) to the emptied table.
\* int(row['hour']) raises on a missing hour (line 182).
create_tables(table, rows, fail) ==
    LET new == [i \in 1..Len(rows) |-> InsertedRow(rows[i])]
    IN  IF fail \in {"connect", "create", "delete"}
        THEN [raised |-> TRUE, table |-> table]
        ELSE IF \E i \in 1..Len(rows) : rows[i].hour = NaN
        THEN [raised |-> TRUE, table |-> <<>>]
        ELSE IF (rows # <<>> /\ fail = "insert") \/ fail = "commit"
        THEN [raised |-> TRUE, table |-> <<>>]
        ELSE [raised |-> (fail = "count"), table |-> new]

\* store_data(df, engine), lines 212-224.
store_data(table, frame, fail) ==
    LET p == process_trading_data(frame)
    IN  IF p.raised THEN [raised |-> TRUE, table |-> table]
        ELSE create_tables(table, p.rows, fail)

\* Lines 35-46 of load_and_store_data: the query on the table.
ReadDb(table, fail, calls) ==
    [value  |-> IF fail = "read" \/ table = <<>> THEN NoValue ELSE <<table>>,
     table  |-> table,
     calls  |-> Append(calls, "read_sql_query"),
     stored |-> "store_data" \in {calls[i] : i \in 1..Len(calls)}]

\* load_and_store_data(uploaded_file), app/data_access.py lines 9-46 (the
\* function of the same name in financial_dashboard.py, lines 335-390, has
\* the same statements): the value returned, the committed table, the calls
\* made in their order, and whether store_data returned normally.  The
\* argument is <<>> (None) or <<file>>; the value is <<>> (None) or <<frame>>.
load_and_store_data(table, uploaded_file, fail) ==
    IF uploaded_file = NoValue THEN ReadDb(table, fail, <<>>)
    ELSE IF ~uploaded_file[1].readable
    THEN [value |-> NoValue, table |-> table, calls |-> <<"read_excel">>, stored |-> FALSE]
    ELSE LET v == validate_data([columns |-> uploaded_file[1].columns, rows |-> uploaded_file[1].rows])
         IN  IF ~v.ok \/ ~(REQUIRED_COLS \subseteq v.df.columns)
             THEN [value |-> NoValue, table |-> table,
                   calls |-> <<"read_excel", "validate_data">>, stored |-> FALSE]
             ELSE LET s == store_data(table, v.df, fail)
                  IN  IF s.raised
                      THEN [value |-> NoValue, table |-> s.table,
                            calls |-> <<"read_excel", "validate_data", "store_data">>,
                            stored |-> FALSE]
                      ELSE ReadDb(s.table, fail, <<"read_excel", "validate_data", "store_data">>)

StoreInit ==
    /\ df = [table |-> <<>>]
    /\ args = NoArgs
    /\ outcome = NoOutcome

\* One call of create_tables(df) on a frame that has the columns of the table.
CreateTablesCall ==
    /\ outcome.kind = "none"
    /\ \E d \in Datasets, f \in DbFailures \ {"read"} :
          LET r == create_tables(df.table, d, f)
          IN  /\ args' = [df |-> d]
              /\ df' = [table |-> r.table]
              /\ outcome' = [kind |-> "create_tables", raised |-> r.raised, found |-> df.table]

\* One call of load_and_store_data, with an upload or without.
LoadAndStoreCall ==
    /\ outcome.kind = "none"
    /\ \E u \in {<<file>> : file \in UploadedFiles} \cup {NoValue}, f \in DbFailures :
          LET r == load_and_store_data(df.table, u, f)
          IN  /\ args' = [uploaded_file |-> u]
              /\ df' = [table |-> r.table]
              /\ outcome' = [kind |-> "load_and_store_data", value |-> r.value,
                             calls |-> r.calls, stored |-> r.stored, found |-> df.table]

StoreNext == CreateTablesCall \/ LoadAndStoreCall \/ Discard

StoreSpec == StoreInit /\ [][StoreNext]_vars

\* ==================================================================
\* Properties
\* ==================================================================
Called == outcome.kind # "none"
Returned == outcome.kind = "returned"
Raised == outcome.kind = "raised"
RaisedKind(k) == Raised /\ outcome.error.kind = k
NothingReturned == outcome.alloc_df = <<>> /\ outcome.meta = <<>>

\* The request of the call, read from its arguments and the dataset alone.
ArgsValid ==
    /\ args.target_volume > 0
    /\ 0 <= args.min_share
    /\ args.min_share <= args.max_share
    /\ args.max_share <= ShareDen
ColumnsComplete == needed \subseteq df.columns
DistinctMakers == {r.maker_bank : r \in BagToSet(df.rows)}
RequestTarget == args.target_volume * VolScale
RequestLower == args.min_share * args.target_volume * QDen
RequestCapacity(m) == Capacity(df, m, args.capacity_percentile)
RequestUpper(m) == Min(args.max_share * args.target_volume * QDen, RequestCapacity(m))
RequestLowerSum == Cardinality(DistinctMakers) * RequestLower
RequestUpperSum == SumOver([m \in DistinctMakers |-> RequestUpper(m)], DistinctMakers)

\* The call got as far as the feasibility checks.
ReachedChecks ==
    Called /\ ArgsValid /\ ColumnsComplete /\ Cardinality(DistinctMakers) >= 2
\* The call passed validation and both feasibility checks.
PassedChecks ==
    ReachedChecks /\ RequestLowerSum <= RequestTarget /\ RequestUpperSum >= RequestTarget

Rows == outcome.alloc_df
RowIds == 1..Len(outcome.alloc_df)
Meta == outcome.meta[1]

\* C1 -- Conservation: the alloc_volume of the rows of every returned
\* allocation add up to target_volume.
C1_Conservation ==
    Returned =>
        /\ PassedChecks
        /\ SumOver([i \in RowIds |-> Rows[i].alloc_volume], RowIds) = RequestTarget

\* A returned allocation over three makers, one of them strictly inside its bounds.
C1_Witness ==
    /\ Returned
    /\ Len(Rows) = 3
    /\ \E i \in RowIds : /\ Rows[i].lower_bound < Rows[i].alloc_volume
                         /\ Rows[i].alloc_volume < Rows[i].upper_bound

\* C2 -- Bound respect: every row of every returned allocation has
\* lower_bound <= alloc_volume <= upper_bound.
C2_BoundRespect ==
    Returned =>
        \A i \in RowIds : /\ Rows[i].lower_bound <= Rows[i].alloc_volume
                          /\ Rows[i].alloc_volume <= Rows[i].upper_bound

\* A returned allocation with one maker filled to its capacity (below the share
\* ceiling) and another held at a positive floor.
C2_Witness ==
    /\ Returned
    /\ \E i \in RowIds : /\ Rows[i].alloc_volume = Rows[i].capacity
                         /\ Rows[i].capacity < args.max_share * args.target_volume * QDen
    /\ \E j \in RowIds : /\ Rows[j].alloc_volume = Rows[j].lower_bound
                         /\ Rows[j].lower_bound > 0
                         /\ Rows[j].lower_bound < Rows[j].upper_bound

\* The volumes d that can be moved from row i to row j within both rows' bounds.
Transfers(i, j) ==
    1..Min(Rows[i].alloc_volume - Rows[i].lower_bound,
           Rows[j].upper_bound - Rows[j].alloc_volume)

\* C3 -- Optimality: moving a positive volume from one maker to another, both
\* staying within their bounds, never gives a smaller objective_value.
C3_Optimality ==
    Returned =>
        \A i \in RowIds, j \in RowIds :
            i # j =>
                \A d \in Transfers(i, j) :
                    Meta.objective_value - d * Rows[i].unit_cost + d * Rows[j].unit_cost
                        >= Meta.objective_value

\* A returned allocation in which a transfer is possible and changes the cost.
C3_Witness ==
    /\ Returned
    /\ \E i \in RowIds, j \in RowIds :
          /\ i # j
          /\ Transfers(i, j) # {}
          /\ Rows[j].unit_cost > Rows[i].unit_cost

\* C4 -- When a maker's capacity is below the uniform lower bound, the request
\* is rejected by the feasibility checks and the solver is not invoked.
C4_RejectedBeforeSolve ==
    (/\ ReachedChecks
     /\ \E m \in DistinctMakers : RequestCapacity(m) < RequestLower)
        => /\ Raised
           /\ ~outcome.solved
           /\ outcome.error.kind \in {"InfeasibleLowerBoundError", "InfeasibleCapacityError"}

\* C5 -- A request with target_volume <= 0 or without
\* 0 <= min_share <= max_share <= 1 fails with a validation error, on every
\* dataset, and returns nothing.
C5_Validation ==
    (Called /\ ~ArgsValid) => RaisedKind("ValidationError") /\ NothingReturned

\* A call with inverted shares (both within [0,1]) on a dataset that lacks a column.
C5_Witness ==
    /\ Called
    /\ args.target_volume > 0
    /\ 0 <= args.max_share /\ args.max_share < args.min_share /\ args.min_share <= ShareDen
    /\ ~ColumnsComplete
    /\ RaisedKind("ValidationError")

\* C6 -- A valid request on a dataset (with the required columns) that holds
\* fewer than 2 distinct maker_bank values fails with InsufficientMakersError.
C6_InsufficientMakers ==
    (Called /\ ArgsValid /\ ColumnsComplete /\ Cardinality(DistinctMakers) < 2)
        => RaisedKind("InsufficientMakersError") /\ NothingReturned

\* A valid request on several trades of one single maker.
C6_Witness ==
    /\ Called /\ ArgsValid /\ ColumnsComplete
    /\ Cardinality(DistinctMakers) = 1
    /\ FrameLen(df) >= 2
    /\ RaisedKind("InsufficientMakersError")

\* C7 -- Feasibility check 1: a call that reaches the check fails with
\* InfeasibleLowerBoundError exactly when n * min_share * target_volume exceeds
\* target_volume, and no call fails with that error otherwise.
C7_LowerBoundCheck ==
    /\ ReachedChecks =>
          (RaisedKind("InfeasibleLowerBoundError") <=> RequestLowerSum > RequestTarget)
    /\ RaisedKind("InfeasibleLowerBoundError") =>
          ReachedChecks /\ RequestLowerSum > RequestTarget /\ NothingReturned

\* Three makers whose floors exceed the target although the floors of two would not.
C7_Witness ==
    /\ RaisedKind("InfeasibleLowerBoundError")
    /\ Cardinality(DistinctMakers) = 3
    /\ 2 * RequestLower <= RequestTarget

\* C8 -- Feasibility check 2: a call that passed check 1 fails with
\* InfeasibleCapacityError whenever the upper bounds min(max_share *
\* target_volume, capacity_m) add up to less than target_volume.
C8_CapacityCheck ==
    (ReachedChecks /\ RequestLowerSum <= RequestTarget /\ RequestUpperSum < RequestTarget)
        => RaisedKind("InfeasibleCapacityError") /\ NothingReturned

\* max_share = 1 and the capacities themselves add up to less than the target.
C8_Witness ==
    /\ RaisedKind("InfeasibleCapacityError")
    /\ args.max_share = ShareDen
    /\ SumOver([m \in DistinctMakers |-> RequestCapacity(m)], DistinctMakers) < RequestTarget

\* C9 -- Once validation and both feasibility checks have passed, the call
\* returns a result of status "Optimal" and raises nothing.
C9_AlwaysOptimal ==
    PassedChecks => Returned /\ Meta.status = "Optimal"

\* The request is one the taxonomy rejects: malformed, on bad data, infeasible
\* by a check, or with no allocation within the makers' bounds.
RequestFails ==
    \/ ~ArgsValid
    \/ ~ColumnsComplete
    \/ Cardinality(DistinctMakers) < 2
    \/ RequestLowerSum > RequestTarget
    \/ RequestUpperSum < RequestTarget
    \/ \E m \in DistinctMakers : RequestLower > RequestUpper(m)

\* C10 -- A failing call returns nothing: it ends with an error and gives
\* neither rows nor metadata.
C10_NoPartialResult ==
    /\ (Called /\ RequestFails) => Raised
    /\ Raised => NothingReturned /\ outcome.error.kind # None
    /\ Returned => Len(Rows) = Cardinality(DistinctMakers) /\ Meta.status = "Optimal"

\* The solver was run, found no solution, and the call gave nothing back.
C10_Witness ==
    /\ RaisedKind("SolverError")
    /\ outcome.solved
    /\ NothingReturned

\* The volume a list of rows gives to the makers of std_rate = 0.
ZeroStdVolume(rows) ==
    SumOver([i \in 1..Len(rows) |-> IF rows[i].std_rate = 0 THEN rows[i].alloc_volume ELSE 0],
            1..Len(rows))

\* What the request of the call can give with its risk_aversion replaced by r.
OutcomesAtRisk(r) ==
    optimize_allocation(df, args.target_volume, args.min_share, args.max_share,
                        r, args.capacity_percentile)

\* C12 -- Monotonicity in risk_aversion: on the same dataset and with the other
\* parameters unchanged, a feasible request with a larger risk_aversion gives
\* the makers of std_rate = 0 at least as much volume in total.
C12_Monotonicity ==
    Returned =>
        \A r2 \in RiskAversions :
            r2 > args.risk_aversion =>
                \A o2 \in OutcomesAtRisk(r2) :
                    /\ o2.kind = "returned"
                    /\ ZeroStdVolume(o2.alloc_df) >= ZeroStdVolume(Rows)

\* A returned allocation which the larger risk_aversion changes: the makers of
\* std_rate = 0 then get strictly more, taken from a maker of positive std_rate.
C12_Witness ==
    /\ Returned
    /\ \E i \in RowIds : Rows[i].std_rate > 0 /\ Rows[i].alloc_volume > Rows[i].lower_bound
    /\ \E r2 \in RiskAversions :
          /\ r2 > args.risk_aversion
          /\ \E o2 \in OutcomesAtRisk(r2) :
                o2.kind = "returned" /\ ZeroStdVolume(o2.alloc_df) > ZeroStdVolume(Rows)

\* What the request of the call can give with its min_share replaced by k / ShareDen.
OutcomesAtMinShare(k) ==
    optimize_allocation(df, args.target_volume, k, args.max_share,
                        args.risk_aversion, args.capacity_percentile)

\* The request is at the boundary of feasibility check 1: its floors exceed
\* the target, and with min_share one step (1 / ShareDen) lower they do not.
AtFloorBoundary ==
    /\ ReachedChecks
    /\ RequestLowerSum > RequestTarget
    /\ Cardinality(DistinctMakers) * LowerBound(args.min_share - 1, args.target_volume)
          <= RequestTarget

\* The makers' upper bounds leave room for an allocation with min_share = k / ShareDen.
CapacityAllows(k) ==
    /\ \A m \in DistinctMakers : LowerBound(k, args.target_volume) <= RequestUpper(m)
    /\ RequestUpperSum >= RequestTarget

\* C13 -- Feasibility boundary, as stated: a request whose floors exceed the
\* target by one step of min_share raises InfeasibleLowerBoundError, and the
\* same request with min_share one step lower succeeds.
C13_BoundaryRestoresSuccess ==
    AtFloorBoundary =>
        /\ RaisedKind("InfeasibleLowerBoundError")
        /\ \A o \in OutcomesAtMinShare(args.min_share - 1) : o.kind = "returned"

\* C13 -- Feasibility boundary, amended: a request whose floors exceed the
\* target by one step of min_share raises InfeasibleLowerBoundError; the same
\* request with min_share one step lower does not raise it, and succeeds when
\* the makers' upper bounds leave room for the allocation (it fails on
\* capacity when they do not).
C13_Boundary ==
    AtFloorBoundary =>
        /\ RaisedKind("InfeasibleLowerBoundError")
        /\ \A o \in OutcomesAtMinShare(args.min_share - 1) :
              IF CapacityAllows(args.min_share - 1)
              THEN o.kind = "returned"
              ELSE /\ o.kind = "raised"
                   /\ o.error.kind \in {"InfeasibleCapacityError", "SolverError"}

\* A request at the boundary whose reduced form succeeds with floors that add
\* up to the target exactly.
C13_Witness ==
    /\ AtFloorBoundary
    /\ RaisedKind("InfeasibleLowerBoundError")
    /\ CapacityAllows(args.min_share - 1)
    /\ Cardinality(DistinctMakers) * LowerBound(args.min_share - 1, args.target_volume)
          = RequestTarget
    /\ \E o \in OutcomesAtMinShare(args.min_share - 1) : o.kind = "returned"

\* The dataset of the scenario: A, B, C with avg_rate 1.01, 1.00, 1.02 and
\* capacities 600, 500, 400.
InScenario ==
    /\ Called
    /\ args.risk_aversion = 0
    /\ df.rows = SetToBag({[trade_date |-> 1, maker_bank |-> "A", amount |-> 600, rate |-> 101],
                           [trade_date |-> 1, maker_bank |-> "B", amount |-> 500, rate |-> 100],
                           [trade_date |-> 1, maker_bank |-> "C", amount |-> 400, rate |-> 102]})

\* The row of maker m in the returned allocation.
RowOf(m) == Rows[CHOOSE i \in RowIds : Rows[i].maker_bank = m]

\* B is filled to its upper bound, A gets what B and the floor of C leave,
\* and B has the largest share (and comes first in the rows).
FillsBThenA ==
    /\ RowOf("B").alloc_volume = RowOf("B").upper_bound
    /\ RowOf("C").alloc_volume = RowOf("C").lower_bound
    /\ RowOf("A").alloc_volume
          = RequestTarget - RowOf("B").alloc_volume - RowOf("C").alloc_volume
    /\ RowOf("A").alloc_volume > RowOf("A").lower_bound
    /\ RowOf("B").alloc_volume > RowOf("A").alloc_volume
    /\ Rows[1].maker_bank = "B"

\* C14 -- Scenario, as stated: the allocation fills B to its upper bound,
\* which is 600, first, then gives A the remaining volume, and B receives the
\* largest share.
C14_ScenarioUpper600 ==
    InScenario =>
        /\ Returned
        /\ RowOf("B").upper_bound = 600 * VolScale
        /\ FillsBThenA

\* C14 -- Scenario, amended: the allocation fills B to its upper bound, which
\* is 500 (the capacity of B, below max_share * target_volume), first, then
\* gives A the remaining volume, and B receives the largest share.
C14_Scenario ==
    InScenario =>
        /\ Returned
        /\ RowOf("B").upper_bound = 500 * VolScale
        /\ RowOf("B").upper_bound < args.max_share * args.target_volume * QDen
        /\ FillsBThenA

\* The scenario has been run: B got 500, A 400 and C its floor of 100.
C14_Witness ==
    /\ InScenario
    /\ Returned
    /\ RowOf("B").alloc_volume = 500 * VolScale
    /\ RowOf("A").alloc_volume = 400 * VolScale
    /\ RowOf("C").alloc_volume = 100 * VolScale

\* C15 -- Reported costs: in every row unit_cost = avg_rate + risk_aversion *
\* std_rate, alloc_pct = alloc_volume / target_volume, cost = alloc_volume *
\* avg_rate and risk_adj_cost = alloc_volume * unit_cost; in the metadata
\* objective_value is the sum of the rows' risk_adj_cost and expected_cost the
\* sum of the rows' cost.
C15_ReportedCosts ==
    Returned =>
        /\ \A i \in RowIds :
              /\ Rows[i].unit_cost = Rows[i].avg_rate + args.risk_aversion * Rows[i].std_rate
              /\ Rows[i].alloc_pct = [num |-> Rows[i].alloc_volume, den |-> RequestTarget]
              /\ Rows[i].cost = Rows[i].alloc_volume * Rows[i].avg_rate
              /\ Rows[i].risk_adj_cost = Rows[i].alloc_volume * Rows[i].unit_cost
        /\ Meta.objective_value = SumOver([i \in RowIds |-> Rows[i].risk_adj_cost], RowIds)
        /\ Meta.expected_cost = SumOver([i \in RowIds |-> Rows[i].cost], RowIds)

\* A returned allocation that gives volume to a maker of positive std_rate
\* under a positive risk_aversion: the two costs differ.
C15_Witness ==
    /\ Returned
    /\ args.risk_aversion > 0
    /\ \E i \in RowIds : /\ Rows[i].std_rate > 0
                         /\ Rows[i].alloc_volume > 0
                         /\ Rows[i].risk_adj_cost > Rows[i].cost
    /\ Meta.objective_value > Meta.expected_cost

\* C16 -- Request parameters are validated before solving: a request with
\* risk_aversion < 0, or with capacity_percentile outside the open interval
\* (0,1), is rejected and no allocation is computed for it.
C16_ParametersValidated ==
    (/\ Called
     /\ \/ args.risk_aversion < 0
        \/ args.capacity_percentile <= 0
        \/ args.capacity_percentile >= QDen)
        => Raised /\ ~outcome.solved /\ NothingReturned

\* The fields the statistics are computed from.
RequiredFields == {"maker_bank", "amount", "rate", "trade_date"}

\* C17 -- _prepare_maker_stats fails with a data error whenever one of the
\* fields maker_bank, amount, rate, trade_date is absent from the dataset, and
\* then computes no statistics (checked on every dataset before a call is
\* made); a call that gets as far as the statistics fails with that error,
\* and never with it on a complete dataset.
C17_DataError ==
    /\ ~Called =>
          \A q \in Percentiles :
              LET st == prepare_maker_stats(df, q)
              IN  IF RequiredFields \subseteq df.columns
                  THEN ~st.raised
                  ELSE /\ st.raised
                       /\ st.missing = RequiredFields \ df.columns
                       /\ "maker_stats" \notin DOMAIN st
    /\ (Called /\ ArgsValid /\ ~(RequiredFields \subseteq df.columns))
          => RaisedKind("DataError") /\ ~outcome.solved /\ NothingReturned
    /\ RaisedKind("DataError") => ~(RequiredFields \subseteq df.columns)

\* A valid request on several trades of two makers, recorded without their trade_date.
C17_Witness ==
    /\ Called /\ ArgsValid
    /\ df.columns = RequiredFields \ {"trade_date"}
    /\ Cardinality(DistinctMakers) >= 2
    /\ RaisedKind("DataError")

\* The number of trades of maker m in the dataset.
Trades(m) ==
    LET rs == {r \in BagToSet(df.rows) : r.maker_bank = m}
    IN  SumOver([r \in rs |-> CopiesIn(r, df.rows)], rs)

\* C18 -- std_rate is a number for every maker, 0 for a maker with fewer than 2
\* trades, and the unit cost of such a maker is its avg_rate for every
\* risk_aversion.
C18_StdRateNumber ==
    /\ (~Called /\ ColumnsComplete) =>
          \A q \in Percentiles :
              LET stats == prepare_maker_stats(df, q).maker_stats
              IN  \A m \in DOMAIN stats :
                      /\ stats[m].std_rate # NaN
                      /\ stats[m].std_rate[1] \in Nat
                      /\ Trades(m) < 2 =>
                            /\ stats[m].std_rate = <<0>>
                            /\ \A r \in RiskAversions :
                                  UnitCost(stats[m].avg_rate, stats[m].std_rate, r)
                                      = stats[m].avg_rate
    /\ Returned =>
          \A i \in RowIds :
              Trades(Rows[i].maker_bank) < 2 =>
                  Rows[i].std_rate = 0 /\ Rows[i].unit_cost = Rows[i].avg_rate

\* A returned allocation, under a positive risk_aversion, over a maker with one
\* trade and a maker whose rates differ.
C18_Witness ==
    /\ Returned
    /\ args.risk_aversion > 0
    /\ \E i \in RowIds : Trades(Rows[i].maker_bank) = 1 /\ Rows[i].unit_cost = Rows[i].avg_rate
    /\ \E j \in RowIds : Rows[j].std_rate > 0 /\ Rows[j].unit_cost > Rows[j].avg_rate

\* The days maker m traded, and the amount it traded on day d.
TradingDays(m) == {r.trade_date : r \in {t \in BagToSet(df.rows) : t.maker_bank = m}}
DayTotal(m, d) ==
    LET rs == {r \in BagToSet(df.rows) : r.maker_bank = m /\ r.trade_date = d}
    IN  SumOver([r \in rs |-> CopiesIn(r, df.rows) * r.amount], rs)
\* The smallest and the largest of the daily totals of maker m.
LowDay(m) == CHOOSE d \in TradingDays(m) : \A e \in TradingDays(m) : DayTotal(m, d) <= DayTotal(m, e)
HighDay(m) == CHOOSE d \in TradingDays(m) : \A e \in TradingDays(m) : DayTotal(m, d) >= DayTotal(m, e)

\* The capacity c (in units of 1/VolScale) is the quantile qnum / QDen of the
\* daily totals of maker m: the one total of a maker with one trading day;
\* between the smallest and the largest total, the largest for qnum = QDen;
\* interpolated between the two totals of a maker with two trading days.
IsDailyQuantile(c, m, qnum) ==
    /\ Cardinality(TradingDays(m)) = 1 => c = VolScale * DayTotal(m, LowDay(m))
    /\ VolScale * DayTotal(m, LowDay(m)) <= c
    /\ c <= VolScale * DayTotal(m, HighDay(m))
    /\ qnum = QDen => c = VolScale * DayTotal(m, HighDay(m))
    /\ Cardinality(TradingDays(m)) = 2 =>
          c = VolScale * DayTotal(m, LowDay(m))
                + ShareDen * qnum * (DayTotal(m, HighDay(m)) - DayTotal(m, LowDay(m)))

\* C19 -- Capacity is computed on per-day totals: the trades of a maker on one
\* trade_date are summed before the quantile is taken across its trading
\* days, and a maker with one trading day has that day's summed volume as
\* capacity for every capacity_percentile.
C19_CapacityPerDay ==
    /\ (~Called /\ ColumnsComplete) =>
          \A q \in Percentiles :
              LET stats == prepare_maker_stats(df, q).maker_stats
              IN  \A m \in DOMAIN stats : IsDailyQuantile(stats[m].capacity, m, q)
    /\ Returned =>
          \A i \in RowIds :
              IsDailyQuantile(Rows[i].capacity, Rows[i].maker_bank, args.capacity_percentile)

\* A returned allocation over a maker with several trades on its one trading
\* day, filled to that day's total, and a maker with two trading days.
C19_Witness ==
    /\ Returned
    /\ \E i \in RowIds :
          /\ Cardinality(TradingDays(Rows[i].maker_bank)) = 1
          /\ Trades(Rows[i].maker_bank) >= 2
          /\ Rows[i].capacity = Rows[i].alloc_volume
    /\ \E j \in RowIds : Cardinality(TradingDays(Rows[j].maker_bank)) = 2

\* C20 -- Every maker_bank of the dataset has exactly one MakerStats entry and
\* exactly one row in the allocation result, and no other maker has either.
C20_OneRowPerMaker ==
    /\ (~Called /\ ColumnsComplete) =>
          \A q \in Percentiles :
              DOMAIN prepare_maker_stats(df, q).maker_stats = DistinctMakers
    /\ Returned =>
          /\ {Rows[i].maker_bank : i \in RowIds} = DistinctMakers
          /\ \A i \in RowIds, j \in RowIds : Rows[i].maker_bank = Rows[j].maker_bank => i = j

\* A returned allocation over three makers, one of a single trade, that leaves
\* two makers with the same volume.
C20_Witness ==
    /\ Returned
    /\ Cardinality(DistinctMakers) = 3
    /\ Len(Rows) = 3
    /\ \E m \in DistinctMakers : Trades(m) = 1
    /\ \E i \in RowIds, j \in RowIds : i # j /\ Rows[i].alloc_volume = Rows[j].alloc_volume

\* The volume and the sum of the rates of maker m in the dataset, and the
\* volume of the whole dataset.
MakerVolume(m) ==
    LET rs == {r \in BagToSet(df.rows) : r.maker_bank = m}
    IN  SumOver([r \in rs |-> CopiesIn(r, df.rows) * r.amount], rs)
MakerRateSum(m) ==
    LET rs == {r \in BagToSet(df.rows) : r.maker_bank = m}
    IN  SumOver([r \in rs |-> CopiesIn(r, df.rows) * r.rate], rs)
DatasetVolume == SumOver([m \in DistinctMakers |-> MakerVolume(m)], DistinctMakers)

BaselineReturned == outcome.kind = "baseline"

\* C21 -- baseline_allocation_cost returns the sum over the makers of
\* (total_volume_m / total historical volume) * target_volume * avg_rate_m,
\* and 0 when the total historical volume is 0.  The equality of the two
\* fractions is stated cross-multiplied, avg_rate_m being MakerRateSum(m) /
\* Trades(m).
C21_BaselineCost ==
    BaselineReturned =>
        IF DatasetVolume = 0
        THEN outcome.cost = [num |-> 0, den |-> 1]
        ELSE /\ outcome.cost.den > 0
             /\ outcome.cost.num * DatasetVolume * RateScale
                  = outcome.cost.den
                      * SumOver([m \in DistinctMakers |->
                                    MakerVolume(m) * args.target_volume
                                        * ((MakerRateSum(m) * RateScale) \div Trades(m))],
                                DistinctMakers)

\* A baseline computed over two makers of different volumes and different
\* average rates, one of which has trades of different rates.
C21_Witness ==
    /\ BaselineReturned
    /\ args.target_volume > 0
    /\ outcome.cost.num > 0
    /\ \E m \in DistinctMakers, n \in DistinctMakers :
          /\ MakerVolume(m) > MakerVolume(n) /\ MakerVolume(n) > 0
          /\ MakerRateSum(m) * Trades(n) # MakerRateSum(n) * Trades(m)
          /\ (MakerRateSum(m) * RateScale) % (Trades(m) * RateScale) # 0

\* A step in which one of the two functions is called and gives its result.
CallStep == outcome.kind = "none" /\ outcome'.kind # "none"

\* The result in the next state is one the function gives on the dataset and
\* the arguments of the next state alone.
FreshResult ==
    IF outcome'.kind = "baseline"
    THEN outcome'.cost = baseline_allocation_cost(df', args'.target_volume)
    ELSE outcome' \in optimize_allocation(df', args'.target_volume, args'.min_share,
                                          args'.max_share, args'.risk_aversion,
                                          args'.capacity_percentile)

GreedyBefore(i, j) ==
    \/ Rows[i].unit_cost < Rows[j].unit_cost
    \/ /\ Rows[i].unit_cost = Rows[j].unit_cost
       /\ Rank(Rows[i].maker_bank) < Rank(Rows[j].maker_bank)

\* What the makers before row i in that order take of the volume left above
\* the floors, each at most its room upper - lower.
RoomBefore(i) ==
    LET before == {j \in RowIds : GreedyBefore(j, i)}
    IN  SumOver([j \in before |-> Rows[j].upper_bound - Rows[j].lower_bound], before)

\* The volume the walk gives to row i: its floor, plus min(room, remaining).
GreedyVolume(i) ==
    LET floors == SumOver([j \in RowIds |-> Rows[j].lower_bound], RowIds)
        remaining == RequestTarget - floors - RoomBefore(i)
        room == Rows[i].upper_bound - Rows[i].lower_bound
    IN  Rows[i].lower_bound + (IF remaining <= 0 THEN 0 ELSE Min(room, remaining))

\* Two rows of equal unit cost.
HasTie == \E i \in RowIds, j \in RowIds : i # j /\ Rows[i].unit_cost = Rows[j].unit_cost

\* C23 -- The allocation returned equals the allocation of the constructive
\* greedy algorithm, for every feasible request, also when several makers
\* have equal unit cost.
C23_EqualsGreedy ==
    Returned => \A i \in RowIds : Rows[i].alloc_volume = GreedyVolume(i)

\* The same for the requests in which no two makers have equal unit cost.
EqualsGreedyWithoutTie ==
    (Returned /\ ~HasTie) => \A i \in RowIds : Rows[i].alloc_volume = GreedyVolume(i)

\* The rows of a returned allocation whose volume is strictly between the
\* bounds of the row, and those whose volume is one of the two bounds.
InteriorRows == {i \in RowIds : Rows[i].lower_bound < Rows[i].alloc_volume
                                 /\ Rows[i].alloc_volume < Rows[i].upper_bound}
BoundRows == {i \in RowIds : Rows[i].alloc_volume \in {Rows[i].lower_bound, Rows[i].upper_bound}}

RequestRemaining == RequestTarget - RequestLowerSum
RequestRoom == RequestUpperSum - RequestLowerSum

\* C25 -- For every request that passed both feasibility checks the volume
\* left above the floors is >= 0 and fits in the room of the makers, so the
\* walk ends with nothing left, and the call never fails with the
\* internal-consistency failure (the non-optimal status of line 147).
C25_SolverErrorUnreachable ==
    PassedChecks => /\ RequestRemaining >= 0
                    /\ RequestRemaining <= RequestRoom
                    /\ ~RaisedKind("SolverError")

\* C26 -- Tie-breaking: of two makers of exactly equal unit cost the one with
\* the lexicographically smaller identifier is filled first; the other gets
\* volume above its floor only once the first is at its upper bound.
C26_TieBreak ==
    Returned =>
        \A i \in RowIds, j \in RowIds :
            (/\ Rows[i].unit_cost = Rows[j].unit_cost
             /\ Rank(Rows[i].maker_bank) < Rank(Rows[j].maker_bank)
             /\ Rows[j].alloc_volume > Rows[j].lower_bound)
                => Rows[i].alloc_volume = Rows[i].upper_bound

\* max_share * target_volume in the unit of the volumes of the rows
\* (1/VolScale), from the arguments of the call.
ShareCeiling == (args.max_share * RequestTarget) \div ShareDen

\* C27 -- Bounds derivation: in every returned allocation the lower_bound of
\* every maker is min_share * target_volume, the same for all, and its
\* upper_bound is the smaller of max_share * target_volume and the capacity
\* of the maker, so it exceeds neither.
C27_BoundsDerivation ==
    Returned =>
        \A i \in RowIds :
            /\ Rows[i].lower_bound * ShareDen = args.min_share * RequestTarget
            /\ Rows[i].upper_bound <= Rows[i].capacity
            /\ Rows[i].upper_bound <= ShareCeiling
            /\ Rows[i].upper_bound \in {Rows[i].capacity, ShareCeiling}
            /\ Rows[i].capacity = RequestCapacity(Rows[i].maker_bank)

\* An allocation with a positive floor in which the capacity bounds one maker
\* and the share ceiling another.
C27_Witness ==
    /\ Returned
    /\ args.min_share > 0
    /\ \E i \in RowIds : Rows[i].upper_bound = Rows[i].capacity
                          /\ Rows[i].capacity < ShareCeiling
    /\ \E i \in RowIds : Rows[i].upper_bound = ShareCeiling
                          /\ ShareCeiling < Rows[i].capacity

\* The raising statement of the first check, in the order of the code, that
\* the request of the call fails; 0 when it fails none.
FirstFailingLine ==
    IF args.target_volume <= 0 THEN 112
    ELSE IF ~(0 <= args.min_share /\ args.min_share <= args.max_share
                                  /\ args.max_share <= ShareDen) THEN 114
    ELSE IF ~(RequiredFields \subseteq df.columns) THEN 66
    ELSE IF Cardinality(DistinctMakers) < 2 THEN 119
    ELSE IF RequestLowerSum > RequestTarget THEN 127
    ELSE IF RequestUpperSum < RequestTarget THEN 129
    ELSE 0

\* C28 -- Error precedence: a request that fails one or several checks is
\* reported with the first one it fails in the order target_volume <= 0,
\* invalid shares, missing columns, fewer than 2 makers, lower bounds above
\* the target, upper bounds below the target; the solver is not run and
\* nothing is returned.
C28_ErrorPrecedence ==
    (Called /\ FirstFailingLine # 0) =>
        /\ Raised
        /\ outcome.error.line = FirstFailingLine
        /\ ~outcome.solved
        /\ NothingReturned

\* A request that fails both feasibility checks, reported as the lower-bound
\* failure.
C28_Witness ==
    /\ ReachedChecks
    /\ RequestLowerSum > RequestTarget
    /\ RequestUpperSum < RequestTarget
    /\ RaisedKind("InfeasibleLowerBoundError")
    /\ ~outcome.solved

\* A request that fails the first three checks at once.
FailsThreeChecks ==
    /\ Called
    /\ args.target_volume <= 0
    /\ args.max_share > ShareDen
    /\ ~(RequiredFields \subseteq df.columns)
    /\ outcome.error.line = 112

\* The committed table holds exactly the rows of the frame `rows`, in their
\* order, each with its hour and its amount.
TableHolds(rows) ==
    /\ Len(df.table) = Len(rows)
    /\ \A i \in 1..Len(rows) : /\ rows[i].hour = <<df.table[i].hour>>
                                /\ rows[i].amount = df.table[i].amount

\* The frame that load_and_store_data hands down to create_tables for the
\* upload of the call.
UploadProcessed ==
    LET u == args.uploaded_file[1]
    IN  process_trading_data(validate_data([columns |-> u.columns, rows |-> u.rows]).df).rows

CreateTablesDone == outcome.kind = "create_tables"
UploadDone == outcome.kind = "load_and_store_data"
CallsMade == IF UploadDone THEN {outcome.calls[i] : i \in 1..Len(outcome.calls)} ELSE {}

\* C29 -- create_tables replaces the rows of the table trades atomically:
\* after every call, direct or through store_data, whether it succeeded or
\* failed at any statement, the committed table holds exactly the rows it
\* held before the call or exactly the rows of the new frame.
C29_AtomicReplace ==
    /\ CreateTablesDone => (df.table = outcome.found \/ TableHolds(args.df))
    /\ (UploadDone /\ "store_data" \in CallsMade) =>
            (df.table = outcome.found \/ TableHolds(UploadProcessed))

\* The upload of the call, when one was given, and what became of it.
UploadGiven == UploadDone /\ args.uploaded_file # NoValue
UploadReadable == UploadGiven /\ args.uploaded_file[1].readable
UploadValid ==
    /\ UploadReadable
    /\ LET v == validate_data([columns |-> args.uploaded_file[1].columns,
                               rows |-> args.uploaded_file[1].rows])
       IN  v.ok /\ REQUIRED_COLS \subseteq v.df.columns
\* store_data was called and raised.
StoringFailed == UploadDone /\ "store_data" \in CallsMade /\ ~outcome.stored
\* Call a was made, and made before call b if b was made.
CalledBefore(a, b) ==
    \E i \in 1..Len(outcome.calls) :
        /\ outcome.calls[i] = a
        /\ \A j \in 1..i : outcome.calls[j] # b

\* The order of the calls alone: store_data only on a readable upload that
\* validate_data accepted with all the required columns, and after it; no
\* read of the database after a failure of reading, validation or storing,
\* which return None; nothing touched when reading or validation fail.
UploadOrdering ==
    UploadDone =>
        /\ "store_data" \in CallsMade => UploadValid /\ CalledBefore("validate_data", "store_data")
        /\ (UploadGiven /\ (~UploadValid \/ StoringFailed)) =>
                outcome.value = NoValue /\ "read_sql_query" \notin CallsMade
        /\ (UploadGiven /\ ~UploadValid) => df.table = outcome.found
        /\ "read_sql_query" \in CallsMade => (~UploadGiven \/ outcome.stored)

\* C30 -- Upload pipeline ordering: store_data is called only after
\* validate_data returned True with all the required columns present; when
\* reading, validation or storing of the upload fails the function returns
\* None, has stored nothing (no row of the upload is committed) and has not
\* read the database; the database is read only when no upload was given or
\* the upload was stored.
C30_UploadPipeline ==
    /\ UploadOrdering
    /\ (UploadGiven /\ (~UploadValid \/ StoringFailed)) =>
            (df.table = outcome.found \/ df.table = <<>>)

\* Uploads of each kind have been handled: unreadable, rejected by
\* validate_data, failed in store_data, and stored and read back.
UploadStoredAndRead ==
    /\ UploadValid /\ outcome.stored
    /\ outcome.calls = <<"read_excel", "validate_data", "store_data", "read_sql_query">>
    /\ outcome.value = <<df.table>>
    /\ outcome.found # <<>> /\ df.table # outcome.found
UploadRejected ==
    /\ UploadReadable /\ ~UploadValid
    /\ outcome.found # <<>>
    /\ outcome.calls = <<"read_excel", "validate_data">>

====
